---- MODULE Spec2Model ----
(***************************************************************************)
(* A model of SymbolLedger (src/app/modules/ledger/hw-app-symbol.js): the  *)
(* host-side driver that frames APDU packets for a Ledger device.          *)
(*                                                                         *)
(* One call of one API method is followed from its invocation to its       *)
(* settlement (a returned value or a thrown error).  The transport is the  *)
(* external collaborator: it records every packet handed to send() and     *)
(* answers each exchange with a response buffer or a failure.              *)
(*                                                                         *)
(* Representation                                                          *)
(*   Buffer             a sequence of bytes 0..255 (1-based here, 0-based  *)
(*                      in the source: source index k is element k+1)      *)
(*   hex string         a sequence of characters; the hex digits are the   *)
(*                      numbers 0..15, NonHex is any other character       *)
(*   decoded text       a sequence of Unicode code points                  *)
(*   path segment       [hardened, index]: the unsigned 32-bit number      *)
(*                      index + (hardened ? 2^31 : 0), kept in two parts   *)
(*                      because it does not fit a signed 32-bit integer    *)
(*   undefined          the value Undef                                    *)
(***************************************************************************)
EXTENDS Integers, Sequences, FiniteSets, TLC

(***************************************************************************)
(* Bounds of the model.                                                    *)
(***************************************************************************)
\* longest derivation path tried (one more than fits a packet)
MaxPathLen == 64
\* longest signing payload tried by the plan-building specification
MaxLen == 270
\* chunk boundaries around which the full specification draws payload lengths
MaxChunks == 2

(***************************************************************************)
(* Program constants.                                                      *)
(***************************************************************************)
CLA_FIELD == 224
GET_VERSION_INS_FIELD == 6
GET_ACCOUNT_INS_FIELD == 2
TX_INS_FIELD == 4
MAX_CHUNK_SIZE == 255
curveMask == 128
\* '0x9000' as code points: "0" "x" "9" "0" "0" "0"
CONTINUE_SENDING == <<48, 120, 57, 48, 48, 48>>
INVALID_DATA_STATUS == 27904
PUBLIC_KEY_LENGTH == 32
\* hex-character offsets used by signTransaction
SIGNING_BYTES_START == 216
HEADER_END == 16
SIGNATURE_HEX_LENGTH == 128
PUBLIC_KEY_HEX_LENGTH == 64

(***************************************************************************)
(* Values.                                                                 *)
(***************************************************************************)
Undef == [tag |-> "undefined", bytes |-> <<>>]
Buf(b) == [tag |-> "buffer", bytes |-> b]
NonHex == 15 + 1

Min(a, b) == IF a < b THEN a ELSE b

\* String.prototype.slice(start, end) / Buffer.prototype.slice(start, end)
\* for non-negative arguments: both ends are clamped to the length.
Slice(s, start, end) ==
    LET a == Min(start, Len(s))
        b == Min(end, Len(s))
    IN  IF a >= b THEN <<>> ELSE SubSeq(s, a + 1, b)

\* Buffer.alloc(size): a zero-filled buffer
BufferAlloc(size) == [j \in 1..size |-> 0]

\* The byte order a little-endian write would give (used to show that the
\* layout properties depend on the byte order).
UInt32LE(segment) ==
    << segment.index % 256,
       (segment.index \div 256) % 256,
       (segment.index \div 65536) % 256,
       (IF segment.hardened THEN 128 ELSE 0) + ((segment.index \div 16777216) % 128) >>

\* a segment as four bytes, most significant first (Buffer.writeUInt32BE)
UInt32BE(segment) ==
    << (IF segment.hardened THEN 128 ELSE 0) + ((segment.index \div 16777216) % 128),
       (segment.index \div 65536) % 256,
       (segment.index \div 256) % 256,
       segment.index % 256 >>

\* buf.writeInt8(value, 0) / buf.writeUInt8(value, offset)
WriteByte(buf, value, off) ==
    [j \in 1..Len(buf) |-> IF j = off + 1 THEN value % 256 ELSE buf[j]]

\* bipPath.forEach((segment, index) => buf.writeUInt32BE(segment, 1 + index * 4))
WritePath(buf, path) ==
    [j \in 1..Len(buf) |->
        IF j >= 2 /\ j <= 1 + Len(path) * 4
        THEN UInt32BE(path[((j - 2) \div 4) + 1])[((j - 2) % 4) + 1]
        ELSE buf[j]]

\* source.copy(target, targetStart, sourceStart, sourceEnd)
BufferCopy(source, target, targetStart, sourceStart, sourceEnd) ==
    [j \in 1..Len(target) |->
        IF j > targetStart /\ j <= targetStart + (sourceEnd - sourceStart)
           /\ sourceStart + (j - targetStart) <= Len(source)
        THEN source[sourceStart + (j - targetStart)]
        ELSE target[j]]

\* Buffer.toString('hex'): two hex digits per byte
ToHex(bytes) ==
    [k \in 1..(2 * Len(bytes)) |->
        IF k % 2 = 1 THEN bytes[(k + 1) \div 2] \div 16 ELSE bytes[k \div 2] % 16]

\* Buffer.from(str, 'hex'): whole pairs of hex digits, up to the first pair
\* holding a character that is no hex digit
HexPairs(str) ==
    LET pairs == Len(str) \div 2
        bad == {k \in 1..pairs : str[2 * k - 1] >= NonHex \/ str[2 * k] >= NonHex}
    IN  IF bad = {} THEN pairs
        ELSE (CHOOSE k \in bad : \A m \in bad : k <= m) - 1

BufferFromHex(str) ==
    [k \in 1..HexPairs(str) |-> str[2 * k - 1] * 16 + str[2 * k]]

\* Buffer.toString(): UTF-8 decoding.  A byte below 128 is its own code point,
\* a well-formed two-byte sequence is decoded, and every other byte becomes
\* U+FFFD (longer sequences never decode to a code point below 128 either).
Utf8Decode(bytes, k) ==
    LET Continuation(j) == bytes[j] >= 128 /\ bytes[j] <= 191
        Lead(j) == bytes[j] >= 194 /\ bytes[j] <= 223
        \* the code point that starts at byte j, or -1 when byte j is the second
        \* byte of a two-byte sequence
        At(j) ==
            IF j > k /\ Lead(j - 1) /\ Continuation(j) THEN -1
            ELSE IF bytes[j] < 128 THEN bytes[j]
            ELSE IF Lead(j) /\ j < Len(bytes) /\ Continuation(j + 1)
                 THEN (bytes[j] - 192) * 64 + (bytes[j + 1] - 128)
            ELSE 65533
        IsCodePoint(c) == c # -1
    IN  SelectSeq([i \in 1..(Len(bytes) + 1 - k) |-> At(i + k - 1)], IsCodePoint)

BufferToString(bytes) == Utf8Decode(bytes, 1)

(***************************************************************************)
(* Inputs.                                                                 *)
(***************************************************************************)
\* BIPPath.fromString(path).toPathArray(): the parsed path of L segments
PathOf(L) ==
    [i \in 1..L |->
        [hardened |-> (i % 4 # 0),
         index |-> 44 + 256 * i + 65536 * ((2 * i) % 256) + 16777216 * (i % 5)]]

\* transaction.serialize(): the serialized transaction as a hex string, two
\* digits for each of its transaction.size bytes
Serialize(transaction) ==
    ToHex([i \in 1..transaction.size |-> (7 * i + 3) % 256])

Transactions(sizes) ==
    {[size |-> n, type |-> 16724, networkType |-> 152] : n \in sizes}

\* the network generation hash as the caller gives it: 64 hex digits, or ""
GenerationHashes == {<<>>, [k \in 1..64 |-> (3 * k + 5) % 16]}

\* the signer public key as the caller gives it: 64 hex digits
SignerPublicKeys == {[k \in 1..PUBLIC_KEY_HEX_LENGTH |-> (5 * k + 2) % 16]}

NetworkTypes == {104, 152}

\* signing payload lengths at and right above the chunk boundaries of a path of
\* L segments, and the lengths 0 and 1
SigningLens(L) ==
    {0, 1} \cup
    {n \in { (MAX_CHUNK_SIZE - 1 - L * 4) + MAX_CHUNK_SIZE * k + d :
                 k \in 0..(MaxChunks - 1), d \in {0, 1} } : n >= 0}

\* the caller's inputs that make a signing payload of n bytes: the generation
\* hash (the empty one when n is shorter than a hash) and the transaction
HashFor(n) ==
    CHOOSE hash \in GenerationHashes : (Len(hash) = 0) = (n < 32)

TransactionFor(n) ==
    CHOOSE tx \in Transactions({(SIGNING_BYTES_START \div 2) + n - (Len(HashFor(n)) \div 2)}) :
        TRUE

\* what the device may answer to a command
SignatureBytes == [i \in 1..64 |-> (5 * i + 1) % 256]
PublicKeyBytes == [i \in 1..32 |-> (11 * i + 7) % 256]
StatusOk == <<144, 0>>
ContinueBytes == <<48, 120, 57, 48, 48, 48>>

DeviceResponses(ins) ==
    IF ins = TX_INS_FIELD
    THEN {<<>>, ContinueBytes, SignatureBytes \o StatusOk, SubSeq(SignatureBytes, 1, 10)}
    ELSE IF ins = GET_ACCOUNT_INS_FIELD
    THEN {<<>>, <<32>> \o PublicKeyBytes \o StatusOk, <<32>> \o PublicKeyBytes,
          <<32, 171, 205>>, <<16>> \o SubSeq(PublicKeyBytes, 1, 16) \o StatusOk,
          <<33>> \o PublicKeyBytes \o StatusOk}
    ELSE {<<>>, <<0, 0, 1, 2>>, <<0, 1, 0, 7, 144, 0>>, <<0, 3>>}

\* the errors the transport may fail an exchange with
TransportErrors == {"DisconnectedDevice", "TransportStatusError"}

(***************************************************************************)
(* State.                                                                  *)
(***************************************************************************)
VARIABLES
    method,                 \* the API method that was called, "none" before the call
    pc,                     \* where the call stands
    bipPath,                \* the parsed derivation path
    networkType,            \* getAccount: the network type byte
    display,                \* getAccount: whether the device shows the key
    transaction,            \* signTransaction: the transaction to sign
    networkGenerationHash,  \* signTransaction: hex string
    signerPublicKey,        \* signTransaction: hex string
    rawTx,                  \* ledgerMessageHandler: the payload to transfer
    offset,                 \* ledgerMessageHandler: bytes of rawTx planned so far
    apduArray,              \* ledgerMessageHandler: the chunk plan
    cursor,                 \* ledgerMessageHandler: the for-of position in apduArray
    response,               \* the latest response received
    handlerResult,          \* what ledgerMessageHandler returned to signTransaction
    exchanges,              \* the transport's record of the send() calls, in call order
    outcome                 \* how the call settled

vars == << method, pc, bipPath, networkType, display, transaction, networkGenerationHash, signerPublicKey,
           rawTx, offset, apduArray, cursor, response, handlerResult, exchanges,
           outcome >>

Pending == [kind |-> "pending", tag |-> "none", data |-> <<>>]
Return(tag, data) == [kind |-> "return", tag |-> tag, data |-> data]
Throw(tag, data) == [kind |-> "throw", tag |-> tag, data |-> data]

NoTransaction == [size |-> 0, type |-> 0, networkType |-> 0]

Apdu(cla, ins, p1, p2, data) ==
    [cla |-> cla, ins |-> ins, p1 |-> p1, p2 |-> p2, data |-> data]

\* transport.send(cla, ins, p1, p2, data) is called: the exchange is in flight
Send(apdu) ==
    Append(exchanges, [apdu |-> apdu, status |-> "pending", response |-> <<>>,
                       error |-> "none"])

\* the exchange in flight completes with a response
Answer(bytes) ==
    [exchanges EXCEPT ![Len(exchanges)] =
        [apdu |-> @.apdu, status |-> "ok", response |-> bytes, error |-> "none"]]

\* the exchange in flight fails with an error
Fail(e) ==
    [exchanges EXCEPT ![Len(exchanges)] =
        [apdu |-> @.apdu, status |-> "failed", response |-> <<>>, error |-> e]]

\* buffer[k] for a 0-based k: a number, or undefined past the end
ByteAt(bytes, k) ==
    IF k < Len(bytes) THEN [tag |-> "number", value |-> bytes[k + 1]]
    ELSE [tag |-> "undefined", value |-> 0]

Init ==
    /\ method = "none"
    /\ pc = "idle"
    /\ bipPath = <<>>
    /\ networkType = 0
    /\ display = FALSE
    /\ transaction = NoTransaction
    /\ networkGenerationHash = <<>>
    /\ signerPublicKey = <<>>
    /\ rawTx = <<>>
    /\ offset = 0
    /\ apduArray = <<>>
    /\ cursor = 0
    /\ response = Undef
    /\ handlerResult = Undef
    /\ exchanges = <<>>
    /\ outcome = Pending

(***************************************************************************)
(* getAppVersion                                                           *)
(***************************************************************************)
VersionApdu == Apdu(CLA_FIELD, GET_VERSION_INS_FIELD, 0, 0, BufferAlloc(1))

GetAppVersion ==
    /\ pc = "idle"
    /\ method' = "getAppVersion"
    /\ exchanges' = Send(VersionApdu)
    /\ pc' = "await"
    /\ UNCHANGED << bipPath, networkType, display, transaction, networkGenerationHash, signerPublicKey,
                    rawTx, offset, apduArray, cursor, response, handlerResult, outcome >>

\* VersionResult reading the three fields from the start of the response
VersionResultFromStart(bytes) ==
    Return("version", << ByteAt(bytes, 0), ByteAt(bytes, 1), ByteAt(bytes, 2) >>)

VersionResult(bytes) ==
    Return("version", << ByteAt(bytes, 1), ByteAt(bytes, 2), ByteAt(bytes, 3) >>)

ReceiveVersion ==
    /\ pc = "await" /\ method = "getAppVersion"
    /\ \E r \in DeviceResponses(GET_VERSION_INS_FIELD) :
        /\ exchanges' = Answer(r)
        /\ response' = Buf(r)
        /\ outcome' = VersionResult(r)
    /\ pc' = "done"
    /\ UNCHANGED << method, bipPath, networkType, display, transaction, networkGenerationHash, signerPublicKey,
                    rawTx, offset, apduArray, cursor, handlerResult >>

(***************************************************************************)
(* getAccount                                                              *)
(***************************************************************************)
AccountData(path, network) ==
    WriteByte(
        WritePath(
            WriteByte(BufferAlloc(1 + Len(path) * 4 + 1), Len(path), 0),
            path),
        network, 1 + Len(path) * 4)

AccountApdu(path, network, show) ==
    Apdu(CLA_FIELD, GET_ACCOUNT_INS_FIELD, IF show THEN 1 ELSE 0, curveMask,
         AccountData(path, network))

GetAccount ==
    /\ pc = "idle"
    /\ \E L \in 0..MaxPathLen, network \in NetworkTypes, show \in BOOLEAN :
        /\ bipPath' = PathOf(L)
        /\ networkType' = network
        /\ display' = show
        /\ exchanges' = Send(AccountApdu(PathOf(L), network, show))
    /\ method' = "getAccount"
    /\ pc' = "await"
    /\ UNCHANGED << transaction, networkGenerationHash, signerPublicKey,
                    rawTx, offset, apduArray, cursor, response, handlerResult, outcome >>

AccountResult(bytes) ==
    LET publicKeyLength == ByteAt(bytes, 0)
    IN  IF publicKeyLength.tag = "undefined" \/ publicKeyLength.value # PUBLIC_KEY_LENGTH
        THEN Throw("statusCode", <<INVALID_DATA_STATUS>>)
        ELSE Return("publicKey", ToHex(Slice(bytes, 1, 1 + publicKeyLength.value)))

ReceiveAccount ==
    /\ pc = "await" /\ method = "getAccount"
    /\ \E r \in DeviceResponses(GET_ACCOUNT_INS_FIELD) :
        /\ exchanges' = Answer(r)
        /\ response' = Buf(r)
        /\ outcome' = AccountResult(r)
    /\ pc' = "done"
    /\ UNCHANGED << method, bipPath, networkType, display, transaction, networkGenerationHash, signerPublicKey,
                    rawTx, offset, apduArray, cursor, handlerResult >>

(***************************************************************************)
(* signTransaction and ledgerMessageHandler                                *)
(***************************************************************************)
\* signingBytes = networkGenerationHash + rawPayload.slice(216)
SigningBytes(generationHash, rawPayload) ==
    generationHash \o Slice(rawPayload, SIGNING_BYTES_START, Len(rawPayload))

SignTransaction ==
    /\ pc = "idle"
    /\ \E L \in 0..MaxPathLen, key \in SignerPublicKeys :
       \E n \in SigningLens(L) :
        /\ transaction' = TransactionFor(n)
        /\ networkGenerationHash' = HashFor(n)
        /\ signerPublicKey' = key
        /\ rawTx' = BufferFromHex(SigningBytes(HashFor(n), Serialize(TransactionFor(n))))
        /\ bipPath' = PathOf(L)
    /\ method' = "signTransaction"
    /\ apduArray' = <<>>
    /\ offset' = 0
    /\ pc' = "build"
    /\ UNCHANGED << networkType, display, cursor, response, handlerResult, exchanges,
                    outcome >>

\* MaxChunkSizeAt keeping room for a path header in every packet
MaxChunkSizeHeaderAlways(off, path) == MAX_CHUNK_SIZE - 1 - Len(path) * 4

\* MaxChunkSizeAt without the room the path header takes in the first packet
MaxChunkSizeNoHeader(off, path) == MAX_CHUNK_SIZE

\* const maxChunkSize = offset === 0 ? MAX_CHUNK_SIZE - 1 - bipPath.length * 4 : MAX_CHUNK_SIZE
MaxChunkSizeAt(off, path) ==
    IF off = 0 THEN MAX_CHUNK_SIZE - 1 - Len(path) * 4 ELSE MAX_CHUNK_SIZE

\* ChunkSizeAt leaving the last byte of the payload out of the final chunk
ChunkSizeLastByteLeft(off, maxChunkSize, length) ==
    IF off + maxChunkSize > length THEN length - off - 1 ELSE maxChunkSize

\* const chunkSize = offset + maxChunkSize > rawTx.length ? rawTx.length - offset : maxChunkSize
ChunkSizeAt(off, maxChunkSize, length) ==
    IF off + maxChunkSize > length THEN length - off ELSE maxChunkSize

\* P1At with the position test inverted
P1AtPositionInverted(off, chunkSize, maxChunkSize) ==
    IF off # 0 THEN (IF chunkSize < maxChunkSize THEN 0 ELSE 128)
    ELSE IF chunkSize < maxChunkSize THEN 1 ELSE 129

\* p1: offset === 0 ? (chunkSize < maxChunkSize ? 0x00 : 0x80)
\*                  : chunkSize < maxChunkSize ? 0x01 : 0x81
P1At(off, chunkSize, maxChunkSize) ==
    IF off = 0 THEN (IF chunkSize < maxChunkSize THEN 0 ELSE 128)
    ELSE IF chunkSize < maxChunkSize THEN 1 ELSE 129

\* the size of the data buffer allocated for the chunk
ChunkAlloc(off, chunkSize, path) ==
    IF off = 0 THEN 1 + Len(path) * 4 + chunkSize ELSE chunkSize

\* The Buffer calls of one iteration raise a RangeError when the allocation
\* size is negative, when the path length is no signed byte, when a segment
\* would be written past the end of the buffer, or when the copy is given a
\* negative source end.
ChunkThrows(off, chunkSize, path) ==
    LET size == ChunkAlloc(off, chunkSize, path)
    IN  \/ size < 0
        \/ /\ off = 0
           /\ \/ size < 1
              \/ Len(path) > 127
              \/ \E index \in 0..(Len(path) - 1) : 1 + index * 4 + 4 > size
        \/ off + chunkSize < 0

\* ChunkData with the continuation chunks copied from the start of the payload
ChunkDataFromStart(off, chunkSize, path, source) ==
    IF off = 0
    THEN BufferCopy(source,
                    WritePath(WriteByte(BufferAlloc(1 + Len(path) * 4 + chunkSize),
                                        Len(path), 0),
                              path),
                    1 + Len(path) * 4, off, off + chunkSize)
    ELSE BufferCopy(source, BufferAlloc(chunkSize), 0, 0, chunkSize)

\* the data buffer of the chunk: the path header and the slice in the first
\* packet, the slice alone in the later ones
ChunkData(off, chunkSize, path, source) ==
    IF off = 0
    THEN BufferCopy(source,
                    WritePath(WriteByte(BufferAlloc(1 + Len(path) * 4 + chunkSize),
                                        Len(path), 0),
                              path),
                    1 + Len(path) * 4, off, off + chunkSize)
    ELSE BufferCopy(source, BufferAlloc(chunkSize), 0, off, off + chunkSize)

\* one iteration of the plan-building loop
BuildChunk ==
    /\ pc = "build"
    /\ offset # Len(rawTx)
    /\ LET maxChunkSize == MaxChunkSizeAt(offset, bipPath)
           chunkSize == ChunkSizeAt(offset, maxChunkSize, Len(rawTx))
       IN  /\ ~ChunkThrows(offset, chunkSize, bipPath)
           /\ apduArray' = Append(apduArray,
                  Apdu(CLA_FIELD, TX_INS_FIELD, P1At(offset, chunkSize, maxChunkSize),
                       curveMask, ChunkData(offset, chunkSize, bipPath, rawTx)))
           /\ offset' = offset + chunkSize
    /\ UNCHANGED << method, pc, bipPath, networkType, display, transaction, networkGenerationHash,
                    signerPublicKey, rawTx, cursor, response, handlerResult,
                    exchanges, outcome >>

\* an iteration whose Buffer calls raise: the error leaves the method
BuildThrow ==
    /\ pc = "build"
    /\ offset # Len(rawTx)
    /\ LET maxChunkSize == MaxChunkSizeAt(offset, bipPath)
           chunkSize == ChunkSizeAt(offset, maxChunkSize, Len(rawTx))
       IN  ChunkThrows(offset, chunkSize, bipPath)
    /\ outcome' = Throw("RangeError", <<>>)
    /\ pc' = "done"
    /\ UNCHANGED << method, bipPath, networkType, display, transaction, networkGenerationHash,
                    signerPublicKey, rawTx, offset, apduArray, cursor, response,
                    handlerResult, exchanges >>

\* the loop ends; let response = Buffer.alloc(0)
StartSend ==
    /\ pc = "build"
    /\ offset = Len(rawTx)
    /\ response' = Buf(BufferAlloc(0))
    /\ cursor' = 1
    /\ pc' = "send"
    /\ UNCHANGED << method, bipPath, networkType, display, transaction, networkGenerationHash,
                    signerPublicKey, rawTx, offset, apduArray, handlerResult,
                    exchanges, outcome >>

\* SendChunk walking the plan from its end
SendChunkBackwards ==
    /\ pc = "send"
    /\ cursor <= Len(apduArray)
    /\ exchanges' = Send(apduArray[Len(apduArray) + 1 - cursor])
    /\ pc' = "await"
    /\ UNCHANGED << method, bipPath, networkType, display, transaction,
                    networkGenerationHash, signerPublicKey, rawTx, offset, apduArray,
                    cursor, response, handlerResult, outcome >>

\* for (const apdu of apduArray): the send() call of one iteration
SendChunk ==
    /\ pc = "send"
    /\ cursor <= Len(apduArray)
    /\ exchanges' = Send(apduArray[cursor])
    /\ pc' = "await"
    /\ UNCHANGED << method, bipPath, networkType, display, transaction, networkGenerationHash,
                    signerPublicKey, rawTx, offset, apduArray, cursor, response,
                    handlerResult, outcome >>

\* ReceiveChunk leaving the loop when an answer is empty
ReceiveChunkStopsOnEmpty ==
    /\ pc = "await" /\ method = "signTransaction"
    /\ \E r \in DeviceResponses(TX_INS_FIELD) :
        /\ exchanges' = Answer(r)
        /\ response' = Buf(r)
        /\ cursor' = IF r = <<>> THEN Len(apduArray) + 1 ELSE cursor + 1
    /\ pc' = "send"
    /\ UNCHANGED << method, bipPath, networkType, display, transaction,
                    networkGenerationHash, signerPublicKey, rawTx, offset, apduArray,
                    handlerResult, outcome >>

\* response = await ...: the exchange completes and the loop moves on
ReceiveChunk ==
    /\ pc = "await" /\ method = "signTransaction"
    /\ \E r \in DeviceResponses(TX_INS_FIELD) :
        /\ exchanges' = Answer(r)
        /\ response' = Buf(r)
    /\ cursor' = cursor + 1
    /\ pc' = "send"
    /\ UNCHANGED << method, bipPath, networkType, display, transaction, networkGenerationHash,
                    signerPublicKey, rawTx, offset, apduArray, handlerResult, outcome >>

\* HandlerReturn testing for the device status word 0x9000 instead of the text
HandlerReturnStatusWord(resp) ==
    IF resp.bytes # <<144, 0>> THEN resp ELSE Undef

\* if (response.toString() != CONTINUE_SENDING) return response;
HandlerReturn(resp) ==
    IF BufferToString(resp.bytes) # CONTINUE_SENDING THEN resp ELSE Undef

CheckResponse ==
    /\ pc = "send"
    /\ cursor > Len(apduArray)
    /\ handlerResult' = HandlerReturn(response)
    /\ pc' = "splice"
    /\ UNCHANGED << method, bipPath, networkType, display, transaction, networkGenerationHash,
                    signerPublicKey, rawTx, offset, apduArray, cursor, response,
                    exchanges, outcome >>

\* SignedPayload resuming the transaction right after the signature
SignedPayloadKeyNotSkipped(rawPayload, resp, key) ==
    LET h == ToHex(resp)
        signature == Slice(h, 0, SIGNATURE_HEX_LENGTH)
    IN  Slice(rawPayload, 0, HEADER_END) \o signature \o key
        \o Slice(rawPayload, HEADER_END + SIGNATURE_HEX_LENGTH, Len(rawPayload))

\* payload = rawPayload.slice(0, 16) + signature + signerPublicKey
\*           + rawPayload.slice(16 + 128 + 64, rawPayload.length)
SignedPayload(rawPayload, resp, key) ==
    LET h == ToHex(resp)
        signature == Slice(h, 0, SIGNATURE_HEX_LENGTH)
    IN  Slice(rawPayload, 0, HEADER_END) \o signature \o key
        \o Slice(rawPayload, HEADER_END + SIGNATURE_HEX_LENGTH + PUBLIC_KEY_HEX_LENGTH,
                 Len(rawPayload))

\* SignResult reading an undefined transfer result as an empty response
SignResultLenient(result, rawPayload, key) ==
    Return("SignedTransaction", SignedPayload(rawPayload, result.bytes, key))

\* signTransaction after the transfer: response.toString('hex') raises a
\* TypeError on undefined, otherwise the SignedTransaction is returned
SignResult(result, rawPayload, key) ==
    IF result.tag = "undefined" THEN Throw("TypeError", <<>>)
    ELSE Return("SignedTransaction", SignedPayload(rawPayload, result.bytes, key))

Splice ==
    /\ pc = "splice"
    /\ outcome' = SignResult(handlerResult, Serialize(transaction), signerPublicKey)
    /\ pc' = "done"
    /\ UNCHANGED << method, bipPath, networkType, display, transaction, networkGenerationHash,
                    signerPublicKey, rawTx, offset, apduArray, cursor, response,
                    handlerResult, exchanges >>

(***************************************************************************)
(* The transport fails the exchange in flight: no method catches, so the   *)
(* error leaves the API method as it is.                                   *)
(***************************************************************************)
\* TransportFail with the failed exchange tried again
TransportFailRetried ==
    /\ pc = "await"
    /\ \E e \in TransportErrors : exchanges' = Fail(e)
    /\ IF method = "signTransaction"
       THEN pc' = "send" /\ outcome' = outcome
       ELSE pc' = "done" /\ outcome' = Throw("TransportError", <<>>)
    /\ UNCHANGED << method, bipPath, networkType, display, transaction,
                    networkGenerationHash, signerPublicKey, rawTx, offset, apduArray,
                    cursor, response, handlerResult >>

TransportFail ==
    /\ pc = "await"
    /\ \E e \in TransportErrors :
        /\ exchanges' = Fail(e)
        /\ outcome' = Throw(e, <<>>)
    /\ pc' = "done"
    /\ UNCHANGED << method, bipPath, networkType, display, transaction, networkGenerationHash,
                    signerPublicKey, rawTx, offset, apduArray, cursor, response,
                    handlerResult >>

Next ==
    \/ GetAppVersion
    \/ ReceiveVersion
    \/ GetAccount
    \/ ReceiveAccount
    \/ SignTransaction
    \/ BuildChunk
    \/ BuildThrow
    \/ StartSend
    \/ SendChunk
    \/ ReceiveChunk
    \/ CheckResponse
    \/ Splice
    \/ TransportFail

Spec == Init /\ [][Next]_vars

(***************************************************************************)
(* One chunked transfer of signTransaction from the call to its outcome,   *)
(* for path lengths at both ends of the range.  Every continuation that    *)
(* can run is run in the end: the event loop resumes each await, and the   *)
(* transport settles every exchange, with a response or with a failure.    *)
(***************************************************************************)
TransferPathLens == {0, 5} \cup ((MaxPathLen - 2)..MaxPathLen)

\* the state right after SignTransaction has been called on a new session
TransferInit ==
    /\ method = "signTransaction"
    /\ pc = "build"
    /\ \E L \in TransferPathLens, key \in SignerPublicKeys :
       \E n \in SigningLens(L) :
        /\ transaction = TransactionFor(n)
        /\ networkGenerationHash = HashFor(n)
        /\ signerPublicKey = key
        /\ rawTx = BufferFromHex(SigningBytes(HashFor(n), Serialize(TransactionFor(n))))
        /\ bipPath = PathOf(L)
    /\ networkType = 0
    /\ display = FALSE
    /\ offset = 0
    /\ apduArray = <<>>
    /\ cursor = 0
    /\ response = Undef
    /\ handlerResult = Undef
    /\ exchanges = <<>>
    /\ outcome = Pending

TransferNext ==
    \/ BuildChunk
    \/ BuildThrow
    \/ StartSend
    \/ SendChunk
    \/ ReceiveChunk
    \/ CheckResponse
    \/ Splice
    \/ TransportFail

TransferSpec == TransferInit /\ [][TransferNext]_vars /\ WF_vars(TransferNext)

(***************************************************************************)
(* The plan-building loop of ledgerMessageHandler on its own, for every    *)
(* payload length up to MaxLen and every path length up to MaxPathLen.     *)
(***************************************************************************)
\* a payload length beyond MaxLen that is tried as well
ScenarioLens == {600}

PlanInit ==
    /\ method = "ledgerMessageHandler"
    /\ pc = "build"
    /\ \E L \in 0..MaxPathLen : bipPath = PathOf(L)
    /\ networkType = 0
    /\ display = FALSE
    /\ transaction = NoTransaction
    /\ networkGenerationHash = <<>>
    /\ signerPublicKey = <<>>
    /\ \E N \in (0..MaxLen) \cup ScenarioLens : rawTx = [i \in 1..N |-> (7 * i + 3) % 256]
    /\ offset = 0
    /\ apduArray = <<>>
    /\ cursor = 0
    /\ response = Undef
    /\ handlerResult = Undef
    /\ exchanges = <<>>
    /\ outcome = Pending

PlanNext == BuildChunk \/ BuildThrow \/ StartSend

PlanSpec == PlanInit /\ [][PlanNext]_vars

(***************************************************************************)
(* Properties of the chunk plan.                                           *)
(***************************************************************************)
\* the most segments whose header leaves room for payload in a packet
MaxSegments == (MAX_CHUNK_SIZE - 2) \div 4

HeaderLen == 1 + Len(bipPath) * 4

\* the payload bytes packet k of the plan carries
PlanSlice(k) ==
    IF k = 1 THEN SubSeq(apduArray[1].data, HeaderLen + 1, Len(apduArray[1].data))
    ELSE apduArray[k].data

RECURSIVE PlanPayload(_)
PlanPayload(k) == IF k = 0 THEN <<>> ELSE PlanPayload(k - 1) \o PlanSlice(k)

\* the payload offset at which packet k of the plan starts
PlanOffset(k) == Len(PlanPayload(k - 1))

\* the segment the four bytes of a buffer starting at 0-based position at encode
SegmentAt(bytes, at) ==
    [hardened |-> bytes[at + 1] >= 128,
     index |-> (bytes[at + 1] % 128) * 16777216 + bytes[at + 2] * 65536
               + bytes[at + 3] * 256 + bytes[at + 4]]

\* a buffer starts with the path header: the count byte and the segments
StartsWithPath(bytes) ==
    /\ Len(bytes) >= HeaderLen
    /\ bytes[1] = Len(bipPath)
    /\ \A i \in 1..Len(bipPath) : SegmentAt(bytes, 1 + (i - 1) * 4) = bipPath[i]

PlanComplete == pc = "send" /\ Len(bipPath) <= MaxSegments

\* C1: the packets of the plan, in plan order, carry the payload bytes planned
\* so far with no gap, overlap or reordering, the whole payload once the plan
\* is complete; the first packet starts with the path header and every later
\* packet is its payload slice and nothing else.
PlanCoversPayload ==
    Len(bipPath) <= MaxSegments =>
        /\ PlanPayload(Len(apduArray)) = SubSeq(rawTx, 1, offset)
        /\ pc = "send" => PlanPayload(Len(apduArray)) = rawTx
        /\ apduArray # <<>> => StartsWithPath(apduArray[1].data)
        /\ \A k \in 2..Len(apduArray) :
              apduArray[k].data = SubSeq(rawTx, PlanOffset(k) + 1, PlanOffset(k + 1))

PlanCoversPayloadWitness ==
    /\ PlanComplete
    /\ Len(apduArray) = 3
    /\ Len(bipPath) = MaxSegments
    /\ offset = Len(rawTx)

\* C2 as claimed: in a complete plan for a non-empty payload the final packet
\* carries 0x00 or 0x01 and every other packet carries 0x80 or 0x81.
LastChunkFlagged ==
    (PlanComplete /\ apduArray # <<>>) =>
        /\ apduArray[Len(apduArray)].p1 \in {0, 1}
        /\ \A k \in 1..(Len(apduArray) - 1) : apduArray[k].p1 \in {128, 129}

\* C3: parameter-1 is one of four values that tell the position: the packet at
\* offset 0 carries 0x00 or 0x80, a packet at a later offset 0x01 or 0x81, and
\* a non-empty plan has exactly one packet with a first-chunk value.
P1EncodesPosition ==
    Len(bipPath) <= MaxSegments =>
        /\ \A k \in 1..Len(apduArray) :
              /\ apduArray[k].p1 \in {0, 128, 1, 129}
              /\ PlanOffset(k) = 0 => apduArray[k].p1 \in {0, 128}
              /\ PlanOffset(k) > 0 => apduArray[k].p1 \in {1, 129}
        /\ apduArray # <<>> =>
              Cardinality({k \in 1..Len(apduArray) : apduArray[k].p1 \in {0, 128}}) = 1

P1EncodesPositionWitness ==
    /\ PlanComplete
    /\ Len(apduArray) = 3
    /\ apduArray[1].p1 = 128
    /\ apduArray[2].p1 = 129
    /\ apduArray[3].p1 = 1

(***************************************************************************)
(* Properties of the exchanges.                                            *)
(***************************************************************************)
Signing == method = "signTransaction"

LastExchange == exchanges[Len(exchanges)]

\* C4: no exchange is issued while the plan is being built; the exchanges are
\* the packets of the plan in plan order, each once; an exchange starts only
\* when all earlier ones have completed; a transfer whose exchanges all
\* succeeded made as many exchanges as the plan has chunks.
SentInPlanOrder ==
    Signing =>
        /\ pc = "build" => exchanges = <<>>
        /\ exchanges # <<>> => offset = Len(rawTx)
        /\ Len(exchanges) <= Len(apduArray)
        /\ \A k \in 1..Len(exchanges) : exchanges[k].apdu = apduArray[k]
        /\ \A k \in 1..(Len(exchanges) - 1) : exchanges[k].status = "ok"
        /\ (pc = "await") = (exchanges # <<>> /\ LastExchange.status = "pending")
        /\ (pc \in {"splice", "done"} /\ outcome.tag \notin TransportErrors
            /\ outcome.tag # "RangeError")
              => /\ Len(exchanges) = Len(apduArray)
                 /\ \A k \in 1..Len(exchanges) : exchanges[k].status = "ok"

SentInPlanOrderWitness ==
    /\ Signing
    /\ pc = "done"
    /\ outcome.tag = "SignedTransaction"
    /\ Len(apduArray) = 3
    /\ Len(exchanges) = 3

\* C5: a failed exchange is the last one the transport sees: the failed chunk
\* is not sent again and no later chunk is sent; the call ends by throwing the
\* transport's error itself and returns no SignedTransaction.  getAccount and
\* getAppVersion never make a second exchange.
FailurePropagates ==
    /\ \A k \in 1..Len(exchanges) :
          exchanges[k].status = "failed" =>
              /\ k = Len(exchanges)
              /\ pc = "done"
              /\ outcome = Throw(exchanges[k].error, <<>>)
              /\ Signing => \A j \in 1..k : exchanges[j].apdu = apduArray[j]
    /\ method \in {"getAccount", "getAppVersion"} => Len(exchanges) <= 1

FailurePropagatesWitness ==
    /\ Signing
    /\ Len(apduArray) = 3
    /\ Len(exchanges) = 2
    /\ exchanges[2].status = "failed"
    /\ outcome.kind = "throw"

\* C6: for a path of at most 63 segments every packet the transfer hands to
\* the transport has a data buffer of at most 255 bytes: header and slice in
\* the first packet, the slice alone in the later ones.
PacketFitsBudget ==
    (Signing /\ Len(bipPath) <= MaxSegments) =>
        \A k \in 1..Len(exchanges) :
            /\ Len(exchanges[k].apdu.data) <= MAX_CHUNK_SIZE
            /\ k = 1 => Len(exchanges[k].apdu.data) = HeaderLen + Len(PlanSlice(1))
            /\ k > 1 => Len(exchanges[k].apdu.data) = Len(PlanSlice(k))

PacketFitsBudgetWitness ==
    /\ Signing
    /\ Len(bipPath) = MaxSegments
    /\ Len(exchanges) = 2
    /\ Len(exchanges[1].apdu.data) = MAX_CHUNK_SIZE
    /\ Len(exchanges[2].apdu.data) = MAX_CHUNK_SIZE

\* C7: once every chunk has been sent, ledgerMessageHandler returns undefined
\* without raising when the text of the last response is the continue marker,
\* and returns the last exchange's response as it is otherwise.
ContinueYieldsNothing ==
    (Signing /\ pc = "splice" /\ exchanges # <<>>) =>
        /\ outcome = Pending
        /\ IF BufferToString(LastExchange.response) = CONTINUE_SENDING
           THEN handlerResult = Undef
           ELSE handlerResult = Buf(LastExchange.response)

ContinueYieldsNothingWitness ==
    /\ Signing
    /\ pc = "splice"
    /\ Len(exchanges) = 2
    /\ LastExchange.response = ContinueBytes
    /\ handlerResult = Undef

\* C8 as claimed: a signing request with an empty signing payload ends with an
\* InvalidInput error and without any transport call.
EmptyPayloadRejected ==
    (Signing /\ rawTx = <<>> /\ pc = "done") =>
        /\ outcome.kind = "throw"
        /\ outcome.tag = "InvalidInput"
        /\ exchanges = <<>>

\* C9 as claimed: getAccount throws status code 27904 when the first response
\* byte is not 32, and a returned publicKey is the 64 hex digits of the 32
\* bytes at response offsets 1..32.
AccountKeyIs32Bytes ==
    (method = "getAccount" /\ pc = "done" /\ LastExchange.status = "ok") =>
        LET bytes == LastExchange.response
        IN  /\ (bytes = <<>> \/ bytes[1] # 32) =>
                  outcome = Throw("statusCode", <<INVALID_DATA_STATUS>>)
            /\ outcome.kind = "return" =>
                  /\ Len(outcome.data) = 64
                  /\ Len(bytes) >= 33
                  /\ outcome.data = ToHex(SubSeq(bytes, 2, 33))

\* C10: for a path that fits the packet, getAccount makes exactly one exchange:
\* class 0xE0, instruction 0x02, parameter-1 0x01 when display is set and 0x00
\* otherwise, parameter-2 0x80, and 2 + 4L data bytes: the segment count, the
\* segments as big-endian 32-bit numbers, the network type.
AccountPacketLayout ==
    (method = "getAccount" /\ 2 + 4 * Len(bipPath) <= MAX_CHUNK_SIZE) =>
        /\ Len(exchanges) = 1
        /\ LET apdu == exchanges[1].apdu
           IN  /\ apdu.cla = 224
               /\ apdu.ins = 2
               /\ apdu.p1 = (IF display THEN 1 ELSE 0)
               /\ apdu.p2 = 128
               /\ Len(apdu.data) = 2 + 4 * Len(bipPath)
               /\ StartsWithPath(apdu.data)
               /\ apdu.data[Len(apdu.data)] = networkType

AccountPacketLayoutWitness ==
    /\ method = "getAccount"
    /\ pc = "done"
    /\ Len(bipPath) = MaxSegments
    /\ display
    /\ outcome.tag = "publicKey"

(***************************************************************************)
(* Properties of the results.                                              *)
(***************************************************************************)
Answered == exchanges # <<>> /\ LastExchange.status = "ok"

\* C11 as claimed: getAppVersion throws when the response is shorter than 4
\* bytes, and a returned version has a number in each of its three fields.
VersionRejectsShort ==
    (method = "getAppVersion" /\ pc = "done" /\ Answered) =>
        /\ Len(LastExchange.response) < 4 => outcome.kind = "throw"
        /\ outcome.kind = "return" =>
              \A i \in 1..3 : outcome.data[i].tag = "number"

\* C12: getAppVersion makes exactly one exchange, the packet E0 06 00 00 with
\* one zero data byte, and for a response of at least 4 bytes returns the
\* bytes at offsets 1, 2, 3 as major, minor, patch and nothing else.
VersionPacketAndFields ==
    method = "getAppVersion" =>
        /\ Len(exchanges) = 1
        /\ exchanges[1].apdu = [cla |-> 224, ins |-> 6, p1 |-> 0, p2 |-> 0, data |-> <<0>>]
        /\ (pc = "done" /\ Answered /\ Len(LastExchange.response) >= 4) =>
              /\ outcome.kind = "return"
              /\ outcome.tag = "version"
              /\ Len(outcome.data) = 3
              /\ \A i \in 1..3 :
                    /\ outcome.data[i].tag = "number"
                    /\ outcome.data[i].value = LastExchange.response[i + 1]

VersionPacketAndFieldsWitness ==
    /\ method = "getAppVersion"
    /\ pc = "done"
    /\ LastExchange.response = <<0, 1, 0, 7, 144, 0>>
    /\ outcome.kind = "return"

\* C13: with a final response of at least 64 bytes, a signer key of 64 hex
\* digits and a serialization that holds the whole 104-byte signature area,
\* the signed payload has the length of the serialization, equals it outside
\* hex positions 16..207, holds the first 64 response bytes as 128 hex digits
\* at 16..143 and the signer key at 144..207.
SpliceKeepsTransaction ==
    (Signing /\ pc = "done" /\ Answered /\ Len(LastExchange.response) >= 64
     /\ BufferToString(LastExchange.response) # CONTINUE_SENDING
     /\ Len(signerPublicKey) = 64 /\ transaction.size >= 104) =>
        LET raw == Serialize(transaction)
            payload == outcome.data
        IN  /\ outcome.kind = "return"
            /\ outcome.tag = "SignedTransaction"
            /\ Len(payload) = Len(raw)
            /\ \A i \in 1..16 : payload[i] = raw[i]
            /\ \A i \in 209..Len(raw) : payload[i] = raw[i]
            /\ \A j \in 1..64 :
                  payload[16 + 2 * j - 1] * 16 + payload[16 + 2 * j]
                      = LastExchange.response[j]
            /\ SubSeq(payload, 145, 208) = signerPublicKey

SpliceKeepsTransactionWitness ==
    /\ Signing
    /\ pc = "done"
    /\ outcome.tag = "SignedTransaction"
    /\ Len(exchanges) = 2
    /\ Len(LastExchange.response) = 66
    /\ transaction.size > 200

\* C14 as claimed: signTransaction throws whenever the final response holds
\* fewer than 64 bytes.
ShortSignatureRejected ==
    (Signing /\ pc = "done" /\ Answered /\ Len(LastExchange.response) < 64) =>
        /\ outcome.kind = "throw"
        /\ outcome.tag # "SignedTransaction"

\* C19: when the last response of the transfer is the continue marker,
\* signTransaction ends by throwing and returns no SignedTransaction.
ContinueFailsSigning ==
    (Signing /\ pc = "done" /\ Answered
     /\ BufferToString(LastExchange.response) = CONTINUE_SENDING) =>
        /\ outcome.kind = "throw"
        /\ outcome.tag = "TypeError"

ContinueFailsSigningWitness ==
    /\ Signing
    /\ pc = "done"
    /\ Len(exchanges) = 3
    /\ LastExchange.response = ContinueBytes
    /\ outcome.tag = "TypeError"

\* C15: the first chunk carries min(N, 254 - 4L) payload bytes and each later
\* chunk min(remaining, 255); a 600-byte payload with a 3-segment path gives
\* the three chunks of 242, 255 and 103 bytes with parameter-1 0x80, 0x81, 0x01.
ChunksFilledToMaximum ==
    Len(bipPath) <= MaxSegments =>
        /\ \A k \in 1..Len(apduArray) :
              Len(PlanSlice(k)) =
                  Min(Len(rawTx) - PlanOffset(k),
                      IF k = 1 THEN 254 - 4 * Len(bipPath) ELSE 255)
        /\ (pc = "send" /\ Len(bipPath) = 3 /\ Len(rawTx) = 600) =>
              /\ Len(apduArray) = 3
              /\ << Len(PlanSlice(1)), Len(PlanSlice(2)), Len(PlanSlice(3)) >>
                     = << 242, 255, 103 >>
              /\ << apduArray[1].p1, apduArray[2].p1, apduArray[3].p1 >>
                     = << 128, 129, 1 >>

ChunksFilledToMaximumWitness ==
    /\ pc = "send"
    /\ Len(bipPath) = 3
    /\ Len(rawTx) = 600
    /\ Len(apduArray) = 3
    /\ Len(apduArray[3].data) = 103

\* the header of the path does not fit a packet of the method
PathExceedsBudget ==
    \/ method = "getAccount" /\ 1 + 4 * Len(bipPath) + 1 > MAX_CHUNK_SIZE
    \/ method = "signTransaction" /\ 1 + 4 * Len(bipPath) > MAX_CHUNK_SIZE

\* C16 as claimed: a call with a path that exceeds the packet budget makes no
\* exchange and ends by throwing, and no packet handed to the transport has
\* more than 255 data bytes.
OversizePathRejected ==
    /\ PathExceedsBudget =>
          /\ exchanges = <<>>
          /\ pc = "done" => outcome.kind = "throw"
    /\ \A k \in 1..Len(exchanges) : Len(exchanges[k].apdu.data) <= MAX_CHUNK_SIZE

\* C17: whatever the earlier exchanges answered, a transfer without transport
\* failure sends every chunk of the plan in order, and what signTransaction
\* ends with is decided by the last response alone: a TypeError when it is the
\* continue marker, the payload spliced from it otherwise.
OnlyLastResponseCounts ==
    (Signing /\ Len(bipPath) <= MaxSegments) =>
        /\ (pc = "send" /\ cursor <= Len(apduArray)) => Len(exchanges) = cursor - 1
        /\ pc = "splice" =>
              /\ cursor = Len(apduArray) + 1
              /\ Len(exchanges) = Len(apduArray)
              /\ \A k \in 1..Len(exchanges) : exchanges[k].apdu = apduArray[k]
        /\ (pc = "done" /\ Answered) =>
              /\ Len(exchanges) = Len(apduArray)
              /\ outcome =
                    IF LastExchange.response = ContinueBytes
                    THEN Throw("TypeError", <<>>)
                    ELSE Return("SignedTransaction",
                                SignedPayload(Serialize(transaction),
                                              LastExchange.response, signerPublicKey))

OnlyLastResponseCountsWitness ==
    /\ Signing
    /\ pc = "done"
    /\ Len(exchanges) = 3
    /\ exchanges[1].response = ContinueBytes
    /\ exchanges[2].response = <<>>
    /\ Len(exchanges[3].response) = 66
    /\ outcome.tag = "SignedTransaction"

\* C20: for a path of at most 63 segments every iteration of the plan-building
\* loop moves the offset forward by at least one byte and never past the end
\* of the payload, the loop is left with the offset at the end of the payload,
\* and a transfer whose exchanges are all settled ends.
TransferTerminates ==
    /\ [][(pc = "build" /\ pc' = "build" /\ Len(bipPath) <= MaxSegments) =>
              (offset' > offset /\ offset' <= Len(rawTx))]_vars
    /\ [][(pc = "build" /\ pc' = "send") => offset = Len(rawTx)]_vars
    /\ (pc = "build" /\ Len(bipPath) <= MaxSegments) ~> (pc = "send")
    /\ (pc = "build" /\ Len(bipPath) <= MaxSegments) ~> (pc = "done")

TransferTerminatesWitness ==
    /\ Signing
    /\ pc = "done"
    /\ Len(bipPath) = MaxSegments
    /\ Len(apduArray) = 3
    /\ offset = Len(rawTx)
    /\ outcome.kind = "return"

====
